---- MODULE Spec2Model ----
(***************************************************************************)
(* gtctl: control-plane agent reconciling aggregates of IP prefixes with   *)
(* the LPM tables of a dataplane.  Model of src/main.rs (main, dyn_cfg,    *)
(* run, run_mode), src/params.rs (the estimator and the parser of the      *)
(* capacity report) and src/dyncfg.rs (the client of the control socket).  *)
(***************************************************************************)
EXTENDS Integers, Sequences, FiniteSets, TLC

\* ------------------------------------------------------------------ bounds
\* largest capacity component drawn for run_mode
MaxCap == 2
\* longest CurrentParams list drawn
MaxReplicas == 2
\* config.replace.max_ranges_per_file, config.update.max_ranges_per_file
MaxRangesPerFile == 1

\* ------------------------------------------------------------ prefixes
\* An Ipv4Net / Ipv6Net: address octets and prefix length.
Net(a, l) == [addr |-> a, len |-> l]

RECURSIVE Pow2(_)
Pow2(n) == IF n = 0 THEN 1 ELSE 2 * Pow2(n - 1)

\* Ipv4Net::trunc / Ipv6Net::trunc of Net::new(addr, depth): host bits zeroed.
trunc(addr, depth) ==
    [i \in 1..Len(addr) |->
        IF 8 * i <= depth THEN addr[i]
        ELSE IF 8 * (i - 1) >= depth THEN 0
        ELSE addr[i] - (addr[i] % Pow2(8 * i - depth))]

\* Ord of the address: lexicographic on the octets.
RECURSIVE AddrLess(_, _, _)
AddrLess(a, b, i) ==
    IF i > Len(a) THEN FALSE
    ELSE IF a[i] # b[i] THEN a[i] < b[i]
    ELSE AddrLess(a, b, i + 1)

\* Ord of IpvXNet (derived): address first, then prefix length.
NetLess(x, y) ==
    \/ AddrLess(x.addr, y.addr, 1)
    \/ x.addr = y.addr /\ x.len < y.len

\* first element of a BTreeSet iteration
MinNet(S) == CHOOSE x \in S : \A y \in S \ {x} : NetLess(x, y)

\* ------------------------------------------------------------ params.rs
Params(nr, nt) == [num_rules |-> nr, num_tbl8s |-> nt]

\* mutant of lpm_add_tables: every prefix longer than /24 counts
lpm_add_tables_NoMemo(net, prefixes) ==
    IF net.len <= 24 THEN <<0, prefixes>> ELSE <<1, prefixes>>

\* lpm_add_tables: <<tbl8s added, memo afterwards>>
lpm_add_tables(net, prefixes) ==
    IF net.len <= 24 THEN <<0, prefixes>>
    ELSE LET prefix == Net(trunc(net.addr, 24), 24)
         IN  IF prefix \in prefixes THEN <<0, prefixes>>
             ELSE <<1, prefixes \cup {prefix}>>

\* lpm6_add_tables: the while loop from depth on; <<tbl8s added, memo>>
RECURSIVE lpm6_loop(_, _, _, _)
lpm6_loop(net, depth, ret, prefixes) ==
    IF depth < net.len
    THEN LET prefix == Net(trunc(net.addr, depth), depth)
         IN  IF prefix \notin prefixes
             THEN lpm6_loop(net, depth + 8, ret + 1, prefixes \cup {prefix})
             ELSE lpm6_loop(net, depth + 8, ret, prefixes)
    ELSE <<ret, prefixes>>

\* mutant of lpm6_add_tables: the walk starts one level too deep
lpm6_add_tables_From32(net, prefixes) == lpm6_loop(net, 32, 0, prefixes)

lpm6_add_tables(net, prefixes) == lpm6_loop(net, 24, 0, prefixes)

add_tables(proto, net, prefixes) ==
    IF proto = "ipv4" THEN lpm_add_tables(net, prefixes)
    ELSE lpm6_add_tables(net, prefixes)

\* estimate_params: the for loop over the BTreeSet, in its order
RECURSIVE estimate_loop(_, _, _, _, _)
estimate_loop(proto, nets, num_rules, num_tbl8s, prefixes) ==
    IF nets = {} THEN Params(num_rules, num_tbl8s)
    ELSE LET net == MinNet(nets)
             r   == add_tables(proto, net, prefixes)
         IN  estimate_loop(proto, nets \ {net}, num_rules + 1,
                           num_tbl8s + r[1], r[2])

estimate_params(proto, nets) == estimate_loop(proto, nets, 0, 0, {})

\* mutant of memo_new: the memo is kept from one call to the next
memo_new_Kept(leftover) == leftover

\* let mut prefixes = HashSet::new(): whatever set an earlier call left
\* behind, the memo of a call starts empty
memo_new(leftover) == {}

\* the memo at the end of the for loop, dropped when estimate_params returns
RECURSIVE memo_loop(_, _, _)
memo_loop(proto, nets, prefixes) ==
    IF nets = {} THEN prefixes
    ELSE LET net == MinNet(nets)
         IN  memo_loop(proto, nets \ {net}, add_tables(proto, net, prefixes)[2])

\* one call of estimate_params made after other calls
estimate_call(proto, nets, leftover) ==
    [result |-> estimate_loop(proto, nets, 0, 0, memo_new(leftover)),
     memo   |-> memo_loop(proto, nets, memo_new(leftover))]

estimate_ipv4(nets) == estimate_params("ipv4", nets)

estimate_ipv6(nets) == estimate_params("ipv6", nets)

estimate(proto, nets) ==
    IF proto = "ipv4" THEN estimate_ipv4(nets) ELSE estimate_ipv6(nets)

\* -------------------------------------------------------------- main.rs
\* mutants of PairGt: the second component ignored; the comparison turned
\* round; >= for >
PairGt_FirstOnly(a, b) == a[1] > b[1]

PairGt_Reversed(a, b) == a[1] < b[1] \/ (a[1] = b[1] /\ a[2] < b[2])

PairGt_OrEqual(a, b) == a[1] > b[1] \/ (a[1] = b[1] /\ a[2] >= b[2])

\* PartialOrd of the pair (usize, usize): a > b
PairGt(a, b) == a[1] > b[1] \/ (a[1] = b[1] /\ a[2] > b[2])

RECURSIVE run_mode_loop(_, _, _)
run_mode_loop(cur, est, i) ==
    IF i > Len(cur) THEN "Update"
    ELSE IF PairGt(<<est.num_rules, est.num_tbl8s>>,
                   <<cur[i].num_rules, cur[i].num_tbl8s>>)
         THEN "Replace"
         ELSE run_mode_loop(cur, est, i + 1)

run_mode(cur, est) == run_mode_loop(cur, est, 1)

\* mutant of ReplaceChanges: the Replace arm inserts only what is new
ReplaceChanges_Diff(new_ranges, old_ranges) ==
    [insert |-> new_ranges \ old_ranges, remove |-> {}]

\* Changes built in the Replace arm of run
ReplaceChanges(new_ranges, old_ranges) ==
    [insert |-> new_ranges, remove |-> {}]

\* mutant of UpdateChanges: the Update arm forgets the removals
UpdateChanges_NoRemove(new_ranges, old_ranges) ==
    [insert |-> new_ranges \ old_ranges, remove |-> {}]

\* Changes built in the Update arm of run
UpdateChanges(new_ranges, old_ranges) ==
    [insert |-> new_ranges \ old_ranges, remove |-> old_ranges \ new_ranges]

\* the match on run_mode in run: mode, Changes and the Params handed over
Decide(proto, cur, new_ranges, old_ranges) ==
    LET set  == {e.range : e \in new_ranges}
        est  == estimate(proto, set)
        mode == run_mode(cur, est)
    IN  [mode    |-> mode,
         est     |-> est,
         changes |-> IF mode = "Replace"
                     THEN ReplaceChanges(new_ranges, old_ranges)
                     ELSE UpdateChanges(new_ranges, old_ranges),
         params  |-> IF mode = "Replace" THEN <<est>> ELSE <<>>]

\* ------------------------------------------------- external collaborators
\* entries of a set in BTreeSet order (Entry orders by its range)
RECURSIVE SortedEntries(_)
SortedEntries(S) ==
    IF S = {} THEN <<>>
    ELSE LET e == CHOOSE x \in S : \A y \in S \ {x} : NetLess(x.range, y.range)
         IN  <<e>> \o SortedEntries(S \ {e})

Chunks(n) == (n + MaxRangesPerFile - 1) \div MaxRangesPerFile

Chunk(seq, k) ==
    {seq[i] : i \in {j \in 1..Len(seq) :
                        /\ j > (k - 1) * MaxRangesPerFile
                        /\ j <= k * MaxRangesPerFile}}

\* output::render_diff / render_diff_with_extra: the scripts, in order, each
\* holding at most max_ranges_per_file inserts and removes
Render(d) ==
    LET ins == SortedEntries(d.changes.insert)
        rem == SortedEntries(d.changes.remove)
        n   == IF Chunks(Len(ins)) > Chunks(Len(rem))
               THEN Chunks(Len(ins)) ELSE Chunks(Len(rem))
    IN  [k \in 1..n |-> [mode   |-> d.mode,
                         first  |-> k = 1,
                         params |-> d.params,
                         insert |-> Chunk(ins, k),
                         remove |-> Chunk(rem, k)]]

\* the dataplane applying one script to an LPM table
Apply(tbl, script) ==
    LET ins == {e.range : e \in script.insert}
        rem == {e.range : e \in script.remove}
    IN  IF script.mode = "Replace" /\ script.first THEN ins
        ELSE (tbl \ rem) \cup ins

\* run from the estimate on: the locals once the scripts are rendered
RunResult(r) ==
    LET d == Decide(r.proto, r.current_params, r.new_ranges, r.old_ranges)
    IN  [r EXCEPT !.mode = d.mode, !.est = d.est, !.changes = d.changes,
                  !.params = d.params, !.scripts = Render(d)]

\* --------------------------------------------------------------- state
VARIABLES
    cur,       \* the file state_dir/aggreate.cur
    old,       \* the file state_dir/aggreate.old
    table,     \* the dataplane's LPM tables, by <<proto, kind>>
    pc,        \* position of the dyncfg process
    pass,      \* which call of dyn_cfg main is in
    arg,       \* content of the file flags.aggregate names
    new_bootstrap, old_bootstrap,  \* the two Bootstraps of dyn_cfg
    todo,      \* groups the two for loops of dyn_cfg still have to visit
    g,         \* locals of the call of run in progress
    h,         \* history of the invocation (not program state)
    rm,        \* one call of run_mode: its arguments and result
    rr,        \* one call of run on one group: its arguments and result
    sc,        \* one call of send_config_script and the peer on the socket
    pl,        \* one call of parse_lines: the response text and the result
    es         \* one call of estimate_ipv4 / estimate_ipv6

vars == <<cur, old, table, pc, pass, arg,
          new_bootstrap, old_bootstrap, todo, g, h, rm, rr, sc, pl, es>>

mainVars == <<cur, old, table, pc, pass, arg,
              new_bootstrap, old_bootstrap, todo, g, h>>

\* -------------------------------------------------------------- values
Entry(k, r) == [kind |-> k, range |-> r]

\* 10.0.0.0/16, 10.0.1.0/25, 192.168.0.0/24, 192.168.1.0/24
N10_16 == Net(<<10, 0, 0, 0>>, 16)
N10_25 == Net(<<10, 0, 1, 0>>, 25)
N192_0 == Net(<<192, 168, 0, 0>>, 24)
N192_1 == Net(<<192, 168, 1, 0>>, 24)
\* 2001:db8::/48
N6_48 == Net(<<32, 1, 13, 184, 0, 0, 0, 0, 0, 0, 0, 0, 0, 0, 0, 0>>, 48)

\* entries an aggregate file may hold
Entries4 == {Entry("a", N10_16), Entry("a", N10_25), Entry("b", N192_0)}
Entries6 == {Entry("a", N6_48)}

\* order of the kinds in a BTreeMap
KindOrder == <<"a", "b">>

Aggregate(e4, e6) == [ipv4 |-> e4, ipv6 |-> e6]
Aggregates == {Aggregate(e4, e6) : e4 \in SUBSET Entries4, e6 \in SUBSET Entries6}
EmptyAgg == Aggregate({}, {})

TableIds == {<<"ipv4", e.kind>> : e \in Entries4} \cup {<<"ipv6", e.kind>> : e \in Entries6}

\* a file: absent, of zero length, or holding a serialized aggregate
Absent == [st |-> "absent", agg |-> EmptyAgg]
Empty == [st |-> "empty", agg |-> EmptyAgg]
Data(a) == [st |-> "data", agg |-> a]

\* CurrentParams a replica set may report to params::read in the state machine
Reports == {<<Params(0, 0)>>, <<Params(9, 9)>>}

NoChanges == [insert |-> {}, remove |-> {}]
NoRun == [proto |-> "none", kind |-> "none", new_ranges |-> {}, old_ranges |-> {},
          current_params |-> <<>>, mode |-> "none", est |-> Params(0, 0),
          changes |-> NoChanges, params |-> <<>>, scripts |-> <<>>]
NoMode == [est |-> Params(0, 0), cur |-> <<>>, mode |-> "none", grown |-> FALSE]
NoCall == [run |-> NoRun, tbl |-> {}, rendered |-> 0, transmitted |-> 0]
NoSend == [pc |-> "none", file |-> <<>>, packet |-> <<>>, connected |-> FALSE,
           wire |-> <<>>, peer |-> "none", reply |-> <<>>,
           result |-> [kind |-> "none"]]
NoParse == [s |-> <<>>, result |-> [kind |-> "none"]]
NoEstimate == [proto |-> "none", nets |-> {}, called |-> FALSE,
               result |-> Params(0, 0), leftover |-> {}, memo |-> {}]

\* ------------------------------------------------------ drib collaborators
\* aggregate::deserialize: a missing or zero-length file gives empty aggregates
deserialize(file) == IF file.st = "data" THEN file.agg ELSE EmptyAgg

\* the kind -> entries map of one family of a Bootstrap
GroupBy(entries) ==
    [k \in {e.kind : e \in entries} |-> {e \in entries : e.kind = k}]

\* Bootstrap::new
Bootstrap(agg) == [ipv4 |-> GroupBy(agg.ipv4), ipv6 |-> GroupBy(agg.ipv6)]

NoBootstrap == Bootstrap(EmptyAgg)

\* --------------------------------------------------------- main, dyn_cfg
\* mutant of FirstPass: main never looks for a leftover current file
FirstPass_AlwaysCaller(cur_file) == "caller"

\* main: a leftover current file is processed first
FirstPass(cur_file) == IF cur_file.st # "absent" THEN "recovery" ELSE "caller"

\* mutant of CopyResults: the pass goes on without having written current
CopyResults_NotWritten(which, cur_file, arg_agg) == {cur_file}

\* fs::copy(new_path, cur_path): the possible contents of cur_path afterwards.
\* In the recovery pass both paths name the same file, which fs::copy may
\* truncate before reading it.
CopyResults(which, cur_file, arg_agg) ==
    IF which = "recovery" THEN {cur_file, Empty} ELSE {Data(arg_agg)}

\* fs::copy interrupted or returning an error: cur_path is as it was, or has
\* been created or truncated and not yet written
CopyFailResults(cur_file) == {cur_file, Empty}

\* the kinds of one family in iteration order
KindsOf(groups) == SelectSeq(KindOrder, LAMBDA k : k \in DOMAIN groups)

\* mutant of Visits: the loop over the IPv6 groups is missing
Visits_Ipv4Only(bootstrap) ==
    LET k4 == KindsOf(bootstrap.ipv4)
    IN  [i \in 1..Len(k4) |-> <<"ipv4", k4[i]>>]

\* mutant of Visits: the loop over the IPv6 groups comes first
Visits_Ipv6First(bootstrap) ==
    LET k4 == KindsOf(bootstrap.ipv4)
        k6 == KindsOf(bootstrap.ipv6)
    IN  [i \in 1..Len(k6) |-> <<"ipv6", k6[i]>>] \o
        [i \in 1..Len(k4) |-> <<"ipv4", k4[i]>>]

\* the visits of the two for loops of dyn_cfg, in order
Visits(bootstrap) ==
    LET k4 == KindsOf(bootstrap.ipv4)
        k6 == KindsOf(bootstrap.ipv6)
    IN  [i \in 1..Len(k4) |-> <<"ipv4", k4[i]>>] \o
        [i \in 1..Len(k6) |-> <<"ipv6", k6[i]>>]

\* old_bootstrap.ipvX.get(kind).unwrap_or(&empty)
OldRanges(bootstrap, proto, kind) ==
    LET groups == IF proto = "ipv4" THEN bootstrap.ipv4 ELSE bootstrap.ipv6
    IN  IF kind \in DOMAIN groups THEN groups[kind] ELSE {}

NewRanges(bootstrap, proto, kind) ==
    IF proto = "ipv4" THEN bootstrap.ipv4[kind] ELSE bootstrap.ipv6[kind]

\* mutant of AfterLoops: the rename does not wait for the loops
AfterLoops_Early(visits) == TRUE

\* both for loops of dyn_cfg have finished: the rename is next
AfterLoops(visits) == visits = <<>>

\* mutant of RenameResult: current is removed instead of renamed
RenameResult_RemoveOnly(cur_file, old_file) == [cur |-> Absent, old |-> old_file]

\* fs::rename(cur_path, old_path): the two files afterwards
RenameResult(cur_file, old_file) == [cur |-> Absent, old |-> cur_file]

\* where run goes after a script has been sent (and removed)
AfterScript(scripts) == IF scripts = <<>> THEN "loop" ELSE "send"

Terminal == {"idle", "done", "failed", "killed"}

NoHistory == [hadCur |-> FALSE, curAtStart |-> Absent, oldAtPass |-> Absent,
              ev |-> <<>>, sent |-> {}]

MainInit ==
    /\ cur = Absent
    /\ old = Absent
    /\ table = [t \in TableIds |-> {}]
    /\ pc = "idle"
    /\ pass = "none"
    /\ arg = EmptyAgg
    /\ new_bootstrap = NoBootstrap
    /\ old_bootstrap = NoBootstrap
    /\ todo = <<>>
    /\ g = NoRun
    /\ h = NoHistory

Init == MainInit /\ rm = NoMode /\ rr = NoCall /\ sc = NoSend /\ pl = NoParse /\ es = NoEstimate

ResetLocals ==
    /\ new_bootstrap' = NoBootstrap
    /\ old_bootstrap' = NoBootstrap
    /\ todo' = <<>>
    /\ g' = NoRun

\* one invocation "gtctl dyncfg -a <aggregate>": main up to the first dyn_cfg
Start(a) ==
    /\ pc \in Terminal
    /\ arg' = a
    /\ pass' = FirstPass(cur)
    /\ pc' = "copy"
    /\ h' = [hadCur |-> cur.st # "absent", curAtStart |-> cur, oldAtPass |-> old,
             ev |-> <<<<"begin", FirstPass(cur)>>>>, sent |-> {}]
    /\ ResetLocals
    /\ UNCHANGED <<cur, old, table, rm, rr, sc, pl, es>>

\* dyn_cfg: fs::copy(new_path, cur_path)
Copy ==
    /\ pc = "copy"
    /\ cur' \in CopyResults(pass, cur, arg)
    /\ pc' = "deserialize"
    /\ h' = [h EXCEPT !.ev = Append(@, <<"copy", pass>>),
                      !.curAtStart = IF pass = "caller" THEN Absent ELSE @]
    /\ UNCHANGED <<old, table, pass, arg,
                   new_bootstrap, old_bootstrap, todo, g, rm, rr, sc, pl, es>>

\* mutant of Deserialize: the old Bootstrap is read from the current file
Deserialize_OldFromCur ==
    /\ pc = "deserialize"
    /\ new_bootstrap' = Bootstrap(deserialize(cur))
    /\ old_bootstrap' = Bootstrap(deserialize(cur))
    /\ todo' = Visits(new_bootstrap')
    /\ pc' = "loop"
    /\ UNCHANGED <<cur, old, table, pass, arg, g, h, rm, rr, sc, pl, es>>

\* dyn_cfg: deserialize current and old, build both Bootstraps
Deserialize ==
    /\ pc = "deserialize"
    /\ new_bootstrap' = Bootstrap(deserialize(cur))
    /\ old_bootstrap' = Bootstrap(deserialize(old))
    /\ todo' = Visits(new_bootstrap')
    /\ pc' = "loop"
    /\ UNCHANGED <<cur, old, table, pass, arg, g, h, rm, rr, sc, pl, es>>

\* run: render the parameters script and params::read the capacity
ReadParams(report) ==
    /\ pc = "loop"
    /\ todo # <<>>
    /\ LET proto == Head(todo)[1]
           kind  == Head(todo)[2]
       IN  g' = [NoRun EXCEPT !.proto = proto, !.kind = kind,
                              !.new_ranges = NewRanges(new_bootstrap, proto, kind),
                              !.old_ranges = OldRanges(old_bootstrap, proto, kind),
                              !.current_params = report]
    /\ todo' = Tail(todo)
    /\ pc' = "render"
    /\ UNCHANGED <<cur, old, table, pass, arg,
                   new_bootstrap, old_bootstrap, h, rm, rr, sc, pl, es>>

\* run: estimate, run_mode, build the Changes and render the scripts
RenderDiff ==
    /\ pc = "render"
    /\ g' = RunResult(g)
    /\ pc' = AfterScript(g'.scripts)
    /\ h' = IF g'.scripts = <<>>
            THEN [h EXCEPT !.sent = @ \cup {<<g.proto, g.kind>>}]
            ELSE h
    /\ UNCHANGED <<cur, old, table, pass, arg,
                   new_bootstrap, old_bootstrap, todo, rm, rr, sc, pl, es>>

Applied == [table EXCEPT ![<<g.proto, g.kind>>] = Apply(@, Head(g.scripts))]

Sent ==
    IF Tail(g.scripts) = <<>>
    THEN [h EXCEPT !.sent = @ \cup {<<g.proto, g.kind>>}]
    ELSE h

\* run: dyncfg::send_config_script of the next script succeeds, and so does
\* fs::remove_file when config.remove_rendered_scripts asks for it
Send ==
    /\ pc = "send"
    /\ table' = Applied
    /\ g' = [g EXCEPT !.scripts = Tail(@)]
    /\ pc' = AfterScript(Tail(g.scripts))
    /\ h' = Sent
    /\ UNCHANGED <<cur, old, pass, arg,
                   new_bootstrap, old_bootstrap, todo, rm, rr, sc, pl, es>>

\* dyn_cfg: fs::rename(cur_path, old_path); main then goes on or returns
Rename ==
    /\ pc = "loop"
    /\ AfterLoops(todo)
    /\ old' = RenameResult(cur, old).old
    /\ cur' = RenameResult(cur, old).cur
    /\ IF pass = "recovery"
       THEN /\ pass' = "caller"
            /\ pc' = "copy"
            /\ h' = [h EXCEPT !.ev = Append(Append(@, <<"promote", pass>>),
                                            <<"begin", "caller">>),
                              !.oldAtPass = cur, !.sent = {}]
       ELSE /\ pass' = pass
            /\ pc' = "done"
            /\ h' = [h EXCEPT !.ev = Append(@, <<"promote", pass>>),
                              !.oldAtPass = cur, !.sent = {}]
    /\ ResetLocals
    /\ UNCHANGED <<table, arg, rm, rr, sc, pl, es>>

\* dyn_cfg: fs::copy returns an error
CopyFail ==
    /\ pc = "copy"
    /\ cur' \in CopyFailResults(cur)
    /\ pc' = "failed"
    /\ h' = [h EXCEPT !.ev = Append(@, <<"fail", pass>>)]
    /\ ResetLocals
    /\ UNCHANGED <<old, table, pass, arg, rm, rr, sc, pl, es>>

\* any later step but a send returns an error: the ? operators of dyn_cfg and run
Fail ==
    /\ pc \in {"deserialize", "loop", "render"}
    /\ pc' = "failed"
    /\ h' = [h EXCEPT !.ev = Append(@, <<"fail", pass>>)]
    /\ ResetLocals
    /\ UNCHANGED <<cur, old, table, pass, arg, rm, rr, sc, pl, es>>

\* mutant of SendFail: the error is logged and the loop goes on
SendFail_Swallowed ==
    /\ pc = "send"
    /\ table' \in {table, Applied}
    /\ g' = [g EXCEPT !.scripts = Tail(@)]
    /\ pc' = AfterScript(Tail(g.scripts))
    /\ h' = [h EXCEPT !.ev = Append(@, <<"fail", pass>>)]
    /\ UNCHANGED <<cur, old, pass, arg,
                   new_bootstrap, old_bootstrap, todo, rm, rr, sc, pl, es>>

\* send_config_script returns an error, before or after the dataplane ran the
\* script, or the script was sent and fs::remove_file returns an error
SendFail ==
    /\ pc = "send"
    /\ table' \in {table, Applied}
    /\ pc' = "failed"
    /\ h' = [h EXCEPT !.ev = Append(@, <<"fail", pass>>)]
    /\ ResetLocals
    /\ UNCHANGED <<cur, old, pass, arg, rm, rr, sc, pl, es>>

\* the process is killed
Kill ==
    /\ pc \notin Terminal
    /\ table' \in IF pc = "send" THEN {table, Applied} ELSE {table}
    /\ cur' \in IF pc = "copy" THEN CopyFailResults(cur) ELSE {cur}
    /\ pc' = "killed"
    /\ h' = [h EXCEPT !.ev = Append(@, <<"kill", pass>>)]
    /\ ResetLocals
    /\ UNCHANGED <<old, pass, arg, rm, rr, sc, pl, es>>

Next ==
    \/ \E a \in Aggregates : Start(a)
    \/ Copy
    \/ Deserialize
    \/ \E report \in Reports : ReadParams(report)
    \/ RenderDiff
    \/ Send
    \/ Rename
    \/ CopyFail
    \/ Fail
    \/ SendFail
    \/ Kill

Spec == Init /\ [][Next]_vars

\* the invocations that all complete successfully
NextOk ==
    \/ \E a \in Aggregates : Start(a)
    \/ Copy
    \/ Deserialize
    \/ \E report \in Reports : ReadParams(report)
    \/ RenderDiff
    \/ Send
    \/ Rename

SpecOk == Init /\ [][NextOk]_vars

\* ------------------------------------------------- run_mode on its own
ParamsDom == {Params(r, t) : r \in 0..MaxCap, t \in 0..MaxCap}

ParamsLists(dom) == UNION {[1..n -> dom] : n \in 1..MaxReplicas}

InitMode ==
    /\ MainInit
    /\ rr = NoCall
    /\ sc = NoSend /\ pl = NoParse /\ es = NoEstimate
    /\ rm \in [est : ParamsDom, cur : ParamsLists(ParamsDom),
               mode : {"none"}, grown : {FALSE}]

\* run_mode(&current_params, &estimated_params)
CallRunMode ==
    /\ rm.mode = "none"
    /\ rm' = [rm EXCEPT !.mode = run_mode(rm.cur, rm.est)]
    /\ UNCHANGED <<mainVars, rr, sc, pl, es>>

\* replica i reports one more rule slot, and run_mode is called again
GrowRules(i) ==
    /\ rm.mode # "none"
    /\ i \in 1..Len(rm.cur)
    /\ rm.cur[i].num_rules < MaxCap
    /\ LET c == [rm.cur EXCEPT ![i].num_rules = @ + 1]
       IN  rm' = [rm EXCEPT !.cur = c, !.mode = run_mode(c, rm.est), !.grown = TRUE]
    /\ UNCHANGED <<mainVars, rr, sc, pl, es>>

\* replica i reports one more tbl8 slot, and run_mode is called again
GrowTbl8s(i) ==
    /\ rm.mode # "none"
    /\ i \in 1..Len(rm.cur)
    /\ rm.cur[i].num_tbl8s < MaxCap
    /\ LET c == [rm.cur EXCEPT ![i].num_tbl8s = @ + 1]
       IN  rm' = [rm EXCEPT !.cur = c, !.mode = run_mode(c, rm.est), !.grown = TRUE]
    /\ UNCHANGED <<mainVars, rr, sc, pl, es>>

NextMode ==
    \/ CallRunMode
    \/ \E i \in 1..MaxReplicas : GrowRules(i)
    \/ \E i \in 1..MaxReplicas : GrowTbl8s(i)

SpecMode == InitMode /\ [][NextMode]_vars

\* ------------------------------------------- run on one group, on its own
RunEntries == {Entry("a", n) : n \in {N10_16, N10_25, N192_0, N192_1}}

RunParams == {Params(0, 0), Params(1, 0), Params(5, 5)}

Ranges(entries) == {e.range : e \in entries}

\* the table holds the old group when run is called
InitRun ==
    /\ MainInit
    /\ rm = NoMode
    /\ sc = NoSend /\ pl = NoParse /\ es = NoEstimate
    /\ \E o \in SUBSET RunEntries, n \in (SUBSET RunEntries) \ {{}},
          c \in ParamsLists(RunParams) :
          rr = [run |-> [NoRun EXCEPT !.proto = "ipv4", !.kind = "a",
                                      !.new_ranges = n, !.old_ranges = o,
                                      !.current_params = c],
                tbl |-> Ranges(o), rendered |-> 0, transmitted |-> 0]

\* run, from the estimate to the rendered scripts
CallRun ==
    /\ rr.run.mode = "none"
    /\ rr' = [rr EXCEPT !.run = RunResult(@),
                        !.rendered = Len(RunResult(rr.run).scripts)]
    /\ UNCHANGED <<mainVars, rm, sc, pl, es>>

\* run, the for loop over the scripts: one script sent and applied
RunSend ==
    /\ rr.run.mode # "none"
    /\ rr.run.scripts # <<>>
    /\ rr' = [rr EXCEPT !.run.scripts = Tail(@),
                        !.tbl = Apply(@, Head(rr.run.scripts)),
                        !.transmitted = @ + 1]
    /\ UNCHANGED <<mainVars, rm, sc, pl, es>>

NextRun ==
    \/ CallRun
    \/ RunSend

SpecRun == InitRun /\ [][NextRun]_vars

\* ---------------------------------------- dyncfg.rs: send_config_script
HEADER_LEN == 2

MAX_MSG_LEN == 65534

\* longest script whose bytes are enumerated
MaxPayload == 3

\* mutant of write_u16: little-endian header
write_u16_LittleEndian(len) == <<len % 256, len \div 256>>

\* NetworkEndian::write_u16
write_u16(len) == <<len \div 256, len % 256>>

\* AsyncReadExt::read_u16 on the first two bytes of a stream
read_u16(bytes) == bytes[1] * 256 + bytes[2]

\* size as u16
as_u16(n) == n % 65536

\* mutant of SizeTooLarge: the limit taken as u16::MAX
SizeTooLarge_U16Max(size) == size > MAX_MSG_LEN + 1

\* the size check of send_config_script
SizeTooLarge(size) == size > MAX_MSG_LEN

\* create_packet(r, len) on a reader holding the bytes r: the buffer of
\* HEADER_LEN + MAX_MSG_LEN zeros gets the header and len bytes of r and is
\* cut at end; a range past the buffer panics, a short reader is an error
create_packet(r, len) ==
    LET end == HEADER_LEN + len IN
    IF end > HEADER_LEN + MAX_MSG_LEN THEN [kind |-> "panic"]
    ELSE IF Len(r) < len THEN [kind |-> "Io", at |-> "read_exact"]
    ELSE [kind |-> "Ok",
          packet |-> [i \in 1..end |->
                         IF i <= HEADER_LEN THEN write_u16(len)[i]
                         ELSE r[i - HEADER_LEN]]]

\* byte i of b, or -1 past its end
ByteAt(b, i) == IF i <= Len(b) THEN b[i] ELSE -1

IsContinuation(x) == x \in 128..191

\* the second byte allowed after a three- or four-byte lead
SecondOk(lead, x) ==
    CASE lead = 224 -> x \in 160..191
      [] lead = 237 -> x \in 128..159
      [] lead = 240 -> x \in 144..191
      [] lead = 244 -> x \in 128..143
      [] OTHER -> IsContinuation(x)

\* the chunk of b starting at i: a whole scalar value, or the longest
\* invalid prefix, which from_utf8_lossy replaces by one U+FFFD
utf8_chunk(b, i) ==
    LET x == b[i] IN
    IF x < 128 THEN [ok |-> TRUE, n |-> 1]
    ELSE IF x \in 194..223 THEN
        IF IsContinuation(ByteAt(b, i + 1)) THEN [ok |-> TRUE, n |-> 2]
        ELSE [ok |-> FALSE, n |-> 1]
    ELSE IF x \in 224..239 THEN
        IF ~SecondOk(x, ByteAt(b, i + 1)) THEN [ok |-> FALSE, n |-> 1]
        ELSE IF ~IsContinuation(ByteAt(b, i + 2)) THEN [ok |-> FALSE, n |-> 2]
        ELSE [ok |-> TRUE, n |-> 3]
    ELSE IF x \in 240..244 THEN
        IF ~SecondOk(x, ByteAt(b, i + 1)) THEN [ok |-> FALSE, n |-> 1]
        ELSE IF ~IsContinuation(ByteAt(b, i + 2)) THEN [ok |-> FALSE, n |-> 2]
        ELSE IF ~IsContinuation(ByteAt(b, i + 3)) THEN [ok |-> FALSE, n |-> 3]
        ELSE [ok |-> TRUE, n |-> 4]
    ELSE [ok |-> FALSE, n |-> 1]

\* U+FFFD in UTF-8
REPLACEMENT == <<239, 191, 189>>

RECURSIVE lossy_loop(_, _)
lossy_loop(b, i) ==
    IF i > Len(b) THEN <<>>
    ELSE LET c == utf8_chunk(b, i) IN
         (IF c.ok THEN SubSeq(b, i, i + c.n - 1) ELSE REPLACEMENT)
             \o lossy_loop(b, i + c.n)

\* String::from_utf8_lossy, the String given by its UTF-8 bytes; ASCII
\* input is valid and returned as it is
from_utf8_lossy(b) ==
    IF \A i \in 1..Len(b) : b[i] < 128 THEN b ELSE lossy_loop(b, 1)


\* script bytes: ASCII, the two bytes of U+00E9, and a byte no UTF-8 has
PayloadBytes == {65, 195, 169, 255}

RECURSIVE ByteSeqs(_)
ByteSeqs(n) ==
    IF n = 0 THEN {<<>>}
    ELSE LET shorter == ByteSeqs(n - 1) IN
         shorter \cup {Append(b, x) : b \in {q \in shorter : Len(q) = n - 1},
                                      x \in PayloadBytes}

\* n bytes "A"
Fill(n) == [i \in 1..n |-> 65]

\* scripts at and past the size limit
BigSizes == {MAX_MSG_LEN, MAX_MSG_LEN + 1, MAX_MSG_LEN + 2}

Scripts == ByteSeqs(MaxPayload) \cup {Fill(n) : n \in BigSizes}

\* replies of a peer that does not echo: <<header value, bytes that follow>>
ReplyChoices == {<<0, 0>>, <<1, 1>>, <<1, 0>>, <<MAX_MSG_LEN, MAX_MSG_LEN>>,
                 <<MAX_MSG_LEN, 0>>, <<MAX_MSG_LEN + 1, 0>>}

InitSend ==
    /\ MainInit
    /\ rm = NoMode /\ rr = NoCall /\ pl = NoParse /\ es = NoEstimate
    /\ \E f \in Scripts :
           sc = [pc |-> "open", file |-> f, packet |-> <<>>,
                 connected |-> FALSE, wire |-> <<>>, peer |-> "none",
                 reply |-> <<>>, result |-> [kind |-> "none"]]

\* File::open and metadata
Open ==
    /\ sc.pc = "open"
    /\ sc' = [sc EXCEPT !.pc = "size"]
    /\ UNCHANGED <<mainVars, rm, rr, pl, es>>

\* the size check: a script over the limit is refused before any socket use
CheckSize ==
    /\ sc.pc = "size"
    /\ sc' = IF SizeTooLarge(Len(sc.file))
             THEN [sc EXCEPT !.pc = "returned",
                             !.result = [kind |-> "Size", size |-> Len(sc.file)]]
             ELSE [sc EXCEPT !.pc = "packet"]
    /\ UNCHANGED <<mainVars, rm, rr, pl, es>>

\* create_packet(&mut file, size as u16)
CreatePacket ==
    /\ sc.pc = "packet"
    /\ LET p == create_packet(sc.file, as_u16(Len(sc.file))) IN
       sc' = IF p.kind = "Ok"
             THEN [sc EXCEPT !.pc = "connect", !.packet = p.packet]
             ELSE [sc EXCEPT !.pc = "returned", !.result = p]
    /\ UNCHANGED <<mainVars, rm, rr, pl, es>>

\* UnixStream::connect
Connect ==
    /\ sc.pc = "connect"
    /\ sc' = [sc EXCEPT !.pc = "write", !.connected = TRUE]
    /\ UNCHANGED <<mainVars, rm, rr, pl, es>>

\* stream.write_all(&packet)
WriteAll ==
    /\ sc.pc = "write"
    /\ sc' = [sc EXCEPT !.pc = "peer", !.wire = sc.packet]
    /\ UNCHANGED <<mainVars, rm, rr, pl, es>>

\* the echo server of the tests: read_u16, create_packet on the rest of the
\* stream, write the packet back
PeerEcho ==
    /\ sc.pc = "peer"
    /\ Len(sc.wire) >= HEADER_LEN
    /\ LET p == create_packet(SubSeq(sc.wire, HEADER_LEN + 1, Len(sc.wire)),
                              read_u16(sc.wire)) IN
       sc' = [sc EXCEPT !.pc = "response", !.peer = "echo",
                        !.reply = IF p.kind = "Ok" THEN p.packet ELSE <<>>]
    /\ UNCHANGED <<mainVars, rm, rr, pl, es>>

\* any other peer: a header and some bytes after it
PeerReply(c) ==
    /\ sc.pc = "peer"
    /\ sc' = [sc EXCEPT !.pc = "response", !.peer = "reply",
                        !.reply = write_u16(c[1]) \o Fill(c[2])]
    /\ UNCHANGED <<mainVars, rm, rr, pl, es>>

\* the peer closes the stream without answering
PeerClose ==
    /\ sc.pc = "peer"
    /\ sc' = [sc EXCEPT !.pc = "response", !.peer = "close"]
    /\ UNCHANGED <<mainVars, rm, rr, pl, es>>

\* read_u16, the slice of recv_buf (MAX_MSG_LEN bytes long), read_exact and
\* the lossy decoding
read_response(reply) ==
    IF Len(reply) < HEADER_LEN THEN [kind |-> "Io", at |-> "read_u16"]
    ELSE LET resp_size == read_u16(reply) IN
         IF resp_size > MAX_MSG_LEN THEN [kind |-> "panic"]
         ELSE IF Len(reply) - HEADER_LEN < resp_size
              THEN [kind |-> "Io", at |-> "read_exact"]
         ELSE [kind |-> "Ok",
               text |-> from_utf8_lossy(
                            SubSeq(reply, HEADER_LEN + 1, HEADER_LEN + resp_size))]

ReadResponse ==
    /\ sc.pc = "response"
    /\ sc' = [sc EXCEPT !.pc = "returned", !.result = read_response(sc.reply)]
    /\ UNCHANGED <<mainVars, rm, rr, pl, es>>

\* an I/O error of open, metadata, connect or write_all
IoFail ==
    /\ sc.pc \in {"open", "connect", "write"}
    /\ sc' = [sc EXCEPT !.pc = "returned",
                        !.result = [kind |-> "Io", at |-> sc.pc]]
    /\ UNCHANGED <<mainVars, rm, rr, pl, es>>

NextSend ==
    \/ Open
    \/ CheckSize
    \/ CreatePacket
    \/ Connect
    \/ WriteAll
    \/ PeerEcho
    \/ \E c \in ReplyChoices : PeerReply(c)
    \/ PeerClose
    \/ ReadResponse
    \/ IoFail

SpecSend == InitSend /\ [][NextSend]_vars

\* ------------------------------------------------ params.rs: parse_lines
\* A text is a sequence of characters, each a string of length one; the
\* Arabic-Indic digit three stands for the decimal digits outside ASCII.
ARABIC_INDIC_THREE == "U+0663"

AsciiDigits == {"0", "1", "2", "3", "4", "5", "6", "7", "8", "9"}

\* \d of the regex crate: any Unicode decimal digit
IsDigit(c) == c \in AsciiDigits \cup {ARABIC_INDIC_THREE}

\* \s of the regex crate and char::is_whitespace
IsSpace(c) == c \in {" ", "\t"}

\* longest text whose characters are enumerated
MaxChars == 5

\* most lines of a response put together from whole lines
MaxLines == 3

\* str::lines: the text split at "\n"; the last line needs no line ending
RECURSIVE lines_loop(_, _, _)
lines_loop(s, i, line) ==
    IF i > Len(s) THEN (IF line = <<>> THEN <<>> ELSE <<line>>)
    ELSE IF s[i] = "\n" THEN <<line>> \o lines_loop(s, i + 1, <<>>)
    ELSE lines_loop(s, i + 1, Append(line, s[i]))

lines(s) == lines_loop(s, 1, <<>>)

\* the first index from i on whose character is not a digit (IsDigit) or
\* not a space (~IsDigit): the end of a greedy \d+ or \s*
RECURSIVE span_end(_, _, _)
span_end(line, i, digits) ==
    IF i > Len(line) THEN i
    ELSE IF (digits /\ IsDigit(line[i])) \/ (~digits /\ IsSpace(line[i]))
         THEN span_end(line, i + 1, digits)
    ELSE i

\* RE.captures(line) for ^\s*(\d+):\s*(\d+),\s*(\d+)\s*$
captures(line) ==
    LET a1 == span_end(line, 1, FALSE)
        b1 == span_end(line, a1, TRUE)
        a2 == span_end(line, b1 + 1, FALSE)
        b2 == span_end(line, a2, TRUE)
        a3 == span_end(line, b2 + 1, FALSE)
        b3 == span_end(line, a3, TRUE)
        e  == span_end(line, b3, FALSE)
    IN IF /\ b1 > a1 /\ b1 <= Len(line) /\ line[b1] = ":"
          /\ b2 > a2 /\ b2 <= Len(line) /\ line[b2] = ","
          /\ b3 > a3 /\ e > Len(line)
       THEN [matched |-> TRUE, id |-> SubSeq(line, a1, b1 - 1),
             p1 |-> SubSeq(line, a2, b2 - 1), p2 |-> SubSeq(line, a3, b3 - 1)]
       ELSE [matched |-> FALSE, id |-> <<>>, p1 |-> <<>>, p2 |-> <<>>]

\* mutant of trim_is_empty: the lenient parser that skips any other line
trim_is_empty_Lenient(line) == TRUE

\* line.trim().is_empty()
trim_is_empty(line) == \A i \in 1..Len(line) : IsSpace(line[i])

digit_value(c) ==
    CASE c = "0" -> 0 [] c = "1" -> 1 [] c = "2" -> 2 [] c = "3" -> 3
      [] c = "4" -> 4 [] c = "5" -> 5 [] c = "6" -> 6 [] c = "7" -> 7
      [] c = "8" -> 8 [] c = "9" -> 9

\* the decimal digits of usize::MAX = 2^64 - 1
USIZE_MAX == <<1, 8, 4, 4, 6, 7, 4, 4, 0, 7, 3, 7, 0, 9, 5, 5, 1, 6, 1, 5>>

RECURSIVE strip_zeros(_)
strip_zeros(d) ==
    IF Len(d) > 1 /\ d[1] = "0" THEN strip_zeros(Tail(d)) ELSE d

\* digits d (no leading zero) denote a number above usize::MAX
RECURSIVE exceeds(_, _)
exceeds(d, i) ==
    IF Len(d) # Len(USIZE_MAX) THEN Len(d) > Len(USIZE_MAX)
    ELSE IF i > Len(d) THEN FALSE
    ELSE IF digit_value(d[i]) # USIZE_MAX[i]
         THEN digit_value(d[i]) > USIZE_MAX[i]
    ELSE exceeds(d, i + 1)

RECURSIVE decimal(_)
decimal(d) ==
    IF d = <<>> THEN 0
    ELSE 10 * decimal(SubSeq(d, 1, Len(d) - 1)) + digit_value(d[Len(d)])

\* str::parse::<usize> on a capture of \d+: a digit outside ASCII or a
\* number above usize::MAX is a ParseIntError
parse_usize(d) ==
    IF \E i \in 1..Len(d) : d[i] \notin AsciiDigits THEN [ok |-> FALSE, n |-> 0]
    ELSE IF exceeds(strip_zeros(d), 1) THEN [ok |-> FALSE, n |-> 0]
    ELSE [ok |-> TRUE, n |-> decimal(strip_zeros(d))]

\* mutant of sort_by_key: a later line is put in front of its equals
RECURSIVE sort_by_key_Unstable(_)
sort_by_key_Unstable(v) ==
    IF v = <<>> THEN <<>>
    ELSE LET x == v[Len(v)]
             rest == sort_by_key_Unstable(SubSeq(v, 1, Len(v) - 1))
             k == Cardinality({i \in 1..Len(rest) : rest[i][1] < x[1]})
         IN SubSeq(rest, 1, k) \o <<x>> \o SubSeq(rest, k + 1, Len(rest))

\* v.sort_by_key(|(id, _, _)| *id): stable, so each element goes behind
\* the earlier ones whose id is not larger
RECURSIVE sort_by_key(_)
sort_by_key(v) ==
    IF v = <<>> THEN <<>>
    ELSE LET x == v[Len(v)]
             rest == sort_by_key(SubSeq(v, 1, Len(v) - 1))
             k == Cardinality({i \in 1..Len(rest) : rest[i][1] <= x[1]})
         IN SubSeq(rest, 1, k) \o <<x>> \o SubSeq(rest, k + 1, Len(rest))

\* the loop of parse_lines over the lines from i on, v the tuples so far
RECURSIVE parse_loop(_, _, _)
parse_loop(ls, i, v) ==
    IF i > Len(ls) THEN [kind |-> "Ok", v |-> v]
    ELSE LET caps == captures(ls[i])
             id == parse_usize(caps.id)
             p1 == parse_usize(caps.p1)
             p2 == parse_usize(caps.p2)
         IN IF caps.matched THEN
                IF id.ok /\ p1.ok /\ p2.ok
                THEN parse_loop(ls, i + 1, Append(v, <<id.n, p1.n, p2.n>>))
                ELSE [kind |-> "ParseInt"]
            ELSE IF trim_is_empty(ls[i]) THEN parse_loop(ls, i + 1, v)
            ELSE [kind |-> "Line", line |-> ls[i]]

parse_lines(s) ==
    LET r == parse_loop(lines(s), 1, <<>>) IN
    IF r.kind # "Ok" THEN r
    ELSE IF r.v = <<>> THEN [kind |-> "Empty"]
    ELSE LET sorted == sort_by_key(r.v) IN
         [kind |-> "Ok",
          params |-> [i \in 1..Len(sorted) |-> Params(sorted[i][2], sorted[i][3])]]

\* characters of the texts enumerated in full
TextChars == {"1", ":", ",", " ", "x", "\n", ARABIC_INDIC_THREE}

RECURSIVE Texts(_)
Texts(n) ==
    IF n = 0 THEN {<<>>}
    ELSE LET shorter == Texts(n - 1) IN
         shorter \cup {Append(t, c) : t \in {q \in shorter : Len(q) = n - 1},
                                      c \in TextChars}

\* whole lines: the lines of the tests, two lines with equal ids, blank and
\* malformed lines, and an id of 2^64
L_99 == <<"9", "9", ":", "1", "0", "1", ",", "1", "0", "2">>

L_0 == <<" ", " ", "0", ":", " ", "1", ",", " ", "2">>

L_2 == <<"2", ":", " ", "5", ",", " ", "6", " ">>

L_1 == <<"1", ":", " ", "3", ",", " ", "4">>

L_01 == <<"0", "1", ":", "7", ",", "8">>

L_foo == <<"f", "o", "o">>

L_abc == <<"4", "2", ":", "a", "b", "c", ",", "3">>

L_blank == <<" ", " ">>

L_over == <<"1", "8", "4", "4", "6", "7", "4", "4", "0", "7", "3", "7", "0", "9", "5", "5", "1", "6", "1", "6", ":", "1", ",", "2">>

ReportLines == {L_99, L_0, L_2, L_1, L_01, L_foo, L_abc, L_blank, L_over}

RECURSIVE Join(_)
Join(ls) ==
    IF Len(ls) = 0 THEN <<>>
    ELSE IF Len(ls) = 1 THEN ls[1]
    ELSE ls[1] \o <<"\n">> \o Join(Tail(ls))

ResponseTexts ==
    Texts(MaxChars)
        \cup {Join(ls) : ls \in UNION {[1..n -> ReportLines] : n \in 1..MaxLines}}

InitParse ==
    /\ MainInit
    /\ rm = NoMode /\ rr = NoCall /\ sc = NoSend /\ es = NoEstimate
    /\ \E s \in ResponseTexts : pl = [s |-> s, result |-> [kind |-> "none"]]

CallParseLines ==
    /\ pl.result.kind = "none"
    /\ pl' = [pl EXCEPT !.result = parse_lines(pl.s)]
    /\ UNCHANGED <<mainVars, rm, rr, sc, es>>

NextParse == CallParseLines

SpecParse == InitParse /\ [][NextParse]_vars

\* ------------------------------------------- params.rs: the estimator
\* most prefixes in a set handed to the estimator
MaxPrefixes == 4

Net4(a, b, c, d, l) == Net(<<a, b, c, d>>, l)

\* prefixes at, under and over /24, some sharing a /24, one with host bits
Nets4 == {Net4(0, 0, 0, 0, 0), Net4(10, 0, 0, 0, 16), Net4(10, 0, 1, 0, 24),
          Net4(10, 0, 1, 0, 25), Net4(10, 0, 1, 128, 25), Net4(10, 0, 1, 7, 32),
          Net4(10, 0, 2, 0, 26), Net4(192, 168, 0, 4, 30)}

\* 2001:db8:<c>:: with the last octet z
Net6(c, z, l) == Net(<<32, 1, 13, 184, 0, c, 0, 0, 0, 0, 0, 0, 0, 0, 0, z>>, l)

Nets6 == {Net6(0, 0, 24), Net6(0, 0, 29), Net6(0, 0, 32), Net6(0, 0, 48),
          Net6(1, 0, 48), Net6(0, 0, 64), Net6(0, 1, 128), Net6(1, 0, 41)}

InitEstimate ==
    /\ MainInit
    /\ rm = NoMode /\ rr = NoCall /\ sc = NoSend /\ pl = NoParse
    /\ \E proto \in {"ipv4", "ipv6"} :
       \E nets \in SUBSET (IF proto = "ipv4" THEN Nets4 ELSE Nets6) :
           /\ Cardinality(nets) <= MaxPrefixes
           /\ es = [proto |-> proto, nets |-> nets, called |-> FALSE,
                    result |-> Params(0, 0), leftover |-> {}, memo |-> {}]

\* estimate_ipv4 / estimate_ipv6 is called; leftover is the memo the call
\* before it ended with
CallEstimate ==
    /\ es.proto # "none"
    /\ ~es.called
    /\ LET r == estimate_call(es.proto, es.nets, es.memo) IN
       es' = [es EXCEPT !.called = TRUE, !.result = r.result,
                        !.leftover = es.memo, !.memo = r.memo]
    /\ UNCHANGED <<mainVars, rm, rr, sc, pl>>

\* the next group, family or pass: another set is handed to the estimator
NextCall ==
    /\ es.called
    /\ \E proto \in {"ipv4", "ipv6"} :
       \E nets \in SUBSET (IF proto = "ipv4" THEN Nets4 ELSE Nets6) :
           /\ Cardinality(nets) <= MaxPrefixes
           /\ es' = [es EXCEPT !.proto = proto, !.nets = nets, !.called = FALSE,
                               !.result = Params(0, 0), !.leftover = {}]
    /\ UNCHANGED <<mainVars, rm, rr, sc, pl>>

NextEstimate == CallEstimate \/ NextCall

SpecEstimate == InitEstimate /\ [][NextEstimate]_vars

\* ================================================================ claims
LexExceeds(est, c) ==
    \/ est.num_rules > c.num_rules
    \/ est.num_rules = c.num_rules /\ est.num_tbl8s > c.num_tbl8s

GroupOf(agg, t) ==
    {e \in (IF t[1] = "ipv4" THEN agg.ipv4 ELSE agg.ipv6) : e.kind = t[2]}

\* C1: after invocations that all completed successfully, every (family, kind)
\* table whose kind is present in the aggregate supplied last holds exactly
\* that group's ranges.
C1_TablesAgree ==
    pc = "done" =>
        \A t \in TableIds :
            GroupOf(arg, t) # {} => table[t] = Ranges(GroupOf(arg, t))

\* C2: run_mode returns Replace exactly when some entry of CurrentParams is
\* lexicographically exceeded by the estimate, and Update in every other case.
C2_RunModeLex ==
    rm.mode # "none" =>
        /\ rm.mode \in {"Replace", "Update"}
        /\ rm.mode = "Replace" <=>
               \E i \in 1..Len(rm.cur) : LexExceeds(rm.est, rm.cur[i])

\* Replace decided on the second entry, by the tbl8s alone
C2_Witness ==
    /\ rm.mode = "Replace"
    /\ Len(rm.cur) = 2
    /\ ~LexExceeds(rm.est, rm.cur[1])
    /\ rm.est.num_rules = rm.cur[2].num_rules
    /\ rm.est.num_tbl8s > rm.cur[2].num_tbl8s

ExampleUpdate ==
    /\ rr.run.old_ranges = {Entry("a", N192_0)}
    /\ rr.run.new_ranges = {Entry("a", N192_1)}
    /\ rr.run.current_params = <<Params(5, 5)>>

ExampleReplace ==
    /\ rr.run.old_ranges = {Entry("a", N10_16)}
    /\ rr.run.new_ranges = {Entry("a", N10_16), Entry("a", N10_25)}
    /\ rr.run.current_params = <<Params(1, 0)>>

\* C3: in Update mode insert = new \ old and remove = old \ new, the two are
\* disjoint, old less remove plus insert is new, and the scripts applied to a
\* table holding old leave it holding new; the 192.168 example gives Update.
C3_UpdateChanges ==
    rr.run.mode # "none" =>
        /\ rr.run.mode = "Update" =>
              /\ rr.run.changes.insert = rr.run.new_ranges \ rr.run.old_ranges
              /\ rr.run.changes.remove = rr.run.old_ranges \ rr.run.new_ranges
              /\ rr.run.changes.insert \cap rr.run.changes.remove = {}
              /\ (rr.run.old_ranges \ rr.run.changes.remove)
                     \cup rr.run.changes.insert = rr.run.new_ranges
              /\ rr.run.scripts = <<>> => rr.tbl = Ranges(rr.run.new_ranges)
        /\ ExampleUpdate =>
              /\ rr.run.mode = "Update"
              /\ rr.run.changes.insert = {Entry("a", N192_1)}
              /\ rr.run.changes.remove = {Entry("a", N192_0)}

C3_Witness ==
    /\ ExampleUpdate
    /\ rr.run.mode = "Update"
    /\ rr.transmitted > 0
    /\ rr.run.scripts = <<>>

\* C4: in Replace mode insert is the whole new group and remove is empty,
\* whatever the old group, and the estimate is handed to the renderer; the
\* 10.0 example estimates (2, 1) and gives Replace.
C4_ReplaceChanges ==
    rr.run.mode # "none" =>
        /\ rr.run.mode = "Replace" =>
              /\ rr.run.changes.insert = rr.run.new_ranges
              /\ rr.run.changes.remove = {}
              /\ rr.run.params = <<rr.run.est>>
              /\ rr.run.est.num_rules = Cardinality(rr.run.new_ranges)
              /\ \A i \in 1..Len(rr.run.scripts) :
                     rr.run.scripts[i].params = <<rr.run.est>>
        /\ ExampleReplace =>
              /\ rr.run.est = Params(2, 1)
              /\ rr.run.mode = "Replace"
              /\ rr.run.changes.insert = {Entry("a", N10_16), Entry("a", N10_25)}
              /\ rr.run.changes.remove = {}

C4_Witness ==
    /\ ExampleReplace
    /\ rr.run.mode = "Replace"
    /\ rr.rendered > 0

AllVisits(bootstrap) == {Visits(bootstrap)[i] : i \in 1..Len(Visits(bootstrap))}

\* C5: current is renamed to old only when every group of both families has
\* been visited and had all its scripts transmitted; a failing step leaves old
\* as it was when the pass began and leaves current on disk.
C5_PromoteAfterAllGroups ==
    [][/\ (old' # old \/ (cur.st # "absent" /\ cur'.st = "absent")) =>
              /\ pc = "loop"
              /\ todo = <<>>
              /\ h.sent = AllVisits(new_bootstrap)
              /\ old' = cur
              /\ cur'.st = "absent"
       /\ pc' = "failed" =>
              /\ old' = old
              /\ old' = h.oldAtPass
              /\ cur.st # "absent" => cur'.st # "absent"
              /\ pc # "copy" => (cur' = cur /\ cur'.st # "absent")
      ]_vars

\* a pass failed after a group was transmitted: the earlier old and the
\* unpromoted current are both on disk
C5_Witness ==
    /\ pc = "failed"
    /\ h.sent # {}
    /\ cur.st = "data"
    /\ old.st = "data"
    /\ cur # old
    /\ old = h.oldAtPass

Begins == {i \in 1..Len(h.ev) : h.ev[i][1] = "begin"}

Promotes == {i \in 1..Len(h.ev) : h.ev[i][1] = "promote"}

\* C6: with a leftover current the recovery pass runs first and the caller's
\* aggregate is copied only after that pass has promoted; a failed recovery
\* pass ends the invocation; without a leftover exactly one pass runs.
C6_RecoveryFirst ==
    /\ h.ev # <<>> =>
           h.ev[1] = <<"begin", IF h.hadCur THEN "recovery" ELSE "caller">>
    /\ \A i \in 1..Len(h.ev) :
           /\ h.ev[i] = <<"begin", "recovery">> => i = 1
           /\ (h.hadCur /\ h.ev[i][2] = "caller") =>
                  \E j \in 1..(i - 1) : h.ev[j] = <<"promote", "recovery">>
           /\ h.ev[i][1] = "fail" => i = Len(h.ev)
           /\ ~h.hadCur => h.ev[i][2] = "caller"
    /\ ~h.hadCur => Cardinality(Begins) <= 1
    /\ pc = "done" =>
           /\ Cardinality(Begins) = IF h.hadCur THEN 2 ELSE 1
           /\ Cardinality(Promotes) = IF h.hadCur THEN 2 ELSE 1

\* both passes of one invocation ran to the end
C6_Witness ==
    /\ pc = "done"
    /\ h.hadCur
    /\ h.ev = <<<<"begin", "recovery">>, <<"copy", "recovery">>,
                <<"promote", "recovery">>, <<"begin", "caller">>,
                <<"copy", "caller">>, <<"promote", "caller">>>>

\* C7: the recovery pass deserializes, and promotes to old, the content the
\* leftover current file had when the invocation started.
C7_LeftoverReconciled ==
    /\ (pass = "recovery" /\ pc \in {"loop", "render", "send"}) =>
           new_bootstrap = Bootstrap(deserialize(h.curAtStart))
    /\ (pass = "caller" /\ pc = "copy" /\ h.hadCur) =>
           deserialize(old) = deserialize(h.curAtStart)

\* C8 as stated: with new = old the mode is Update, insert and remove are empty
\* and no change script is rendered.
C8_Idempotent ==
    (rr.run.mode # "none" /\ rr.run.new_ranges = rr.run.old_ranges) =>
        /\ rr.run.mode = "Update"
        /\ rr.run.changes = NoChanges
        /\ rr.rendered = 0

\* C8 amended: with new = old, a group none of whose reported capacities is
\* exceeded by the estimate gets Update with empty insert and remove and no
\* script, the table left as it is; a group with an exceeded capacity gets
\* Replace with the whole group inserted.
C8_IdempotentWithinCapacity ==
    (rr.run.mode # "none" /\ rr.run.new_ranges = rr.run.old_ranges) =>
        IF \E i \in 1..Len(rr.run.current_params) :
               LexExceeds(rr.run.est, rr.run.current_params[i])
        THEN /\ rr.run.mode = "Replace"
             /\ rr.run.changes.insert = rr.run.new_ranges
             /\ rr.run.changes.remove = {}
        ELSE /\ rr.run.mode = "Update"
             /\ rr.run.changes = NoChanges
             /\ rr.rendered = 0
             /\ rr.transmitted = 0
             /\ rr.tbl = Ranges(rr.run.old_ranges)

C8_Witness ==
    /\ rr.run.mode = "Update"
    /\ rr.run.new_ranges = rr.run.old_ranges
    /\ rr.run.changes = NoChanges
    /\ rr.run.est = Params(2, 1)

\* C9: Update is chosen only when every reported replica has at least the
\* estimated number of rules and at least the estimated number of tbl8s.
C9_Headroom ==
    rm.mode = "Update" =>
        \A i \in 1..Len(rm.cur) :
            /\ rm.cur[i].num_rules >= rm.est.num_rules
            /\ rm.cur[i].num_tbl8s >= rm.est.num_tbl8s

\* C10: with the estimate fixed, raising the num_rules or num_tbl8s of an
\* entry of CurrentParams never moves the decision from Update to Replace.
C10_Monotonic ==
    [][(rm.mode = "Update" /\ rm'.est = rm.est) => rm'.mode = "Update"]_vars

\* an entry grew and the decision is Update where the estimate ties on rules
C10_Witness ==
    /\ rm.grown
    /\ rm.mode = "Update"
    /\ \E i \in 1..Len(rm.cur) :
           rm.cur[i].num_rules = rm.est.num_rules /\ rm.est.num_rules > 0

\* C11: once a pass has promoted, the old snapshot exists and no later step
\* (of a later pass, a failure or a kill) removes it, so from the first
\* successfully completed pass on at least one of current and old exists.
C11_SnapshotPresence ==
    [][/\ old.st # "absent" => old'.st # "absent"
       /\ (h'.ev # h.ev /\ h'.ev # <<>> /\ h'.ev[Len(h'.ev)][1] = "promote") =>
              old'.st # "absent"
       /\ (cur.st # "absent" /\ cur'.st = "absent") => old'.st # "absent"
      ]_vars

\* a later pass was killed after its copy: old from the earlier pass is
\* still on disk next to the unpromoted current
C11_Witness ==
    /\ pc = "killed"
    /\ old.st = "data"
    /\ cur.st = "data"
    /\ cur # old
    /\ \E i \in 1..Len(h.ev) : h.ev[i][1] = "copy"

\* C12: a script of more than 65534 bytes is refused with a Size error that
\* carries its size, and the socket is neither connected nor written to; a
\* script of 0..65534 bytes is never refused for its size.
C12_OversizeRefused ==
    /\ Len(sc.file) > 65534 =>
           /\ sc.pc \in {"open", "size", "returned"}
           /\ ~sc.connected
           /\ sc.wire = <<>>
           /\ sc.pc = "returned" =>
                  \/ sc.result = [kind |-> "Size", size |-> Len(sc.file)]
                  \/ sc.result = [kind |-> "Io", at |-> "open"]
    /\ Len(sc.file) <= 65534 =>
           /\ sc.result.kind # "Size"
           /\ sc.pc = "returned" => sc.result.kind \in {"Ok", "Io", "panic"}

\* a script of 65535 bytes was refused
C12_Witness ==
    /\ sc.pc = "returned"
    /\ Len(sc.file) = 65535
    /\ sc.result = [kind |-> "Size", size |-> 65535]
    /\ ~sc.connected

\* the request on the wire is the 2-byte big-endian length and the script
Framed(wire, payload) ==
    /\ Len(wire) = Len(payload) + 2
    /\ wire[1] * 256 + wire[2] = Len(payload)
    /\ wire[1] \in 0..255 /\ wire[2] \in 0..255
    /\ SubSeq(wire, 3, Len(wire)) = payload

RECURSIVE ValidFrom(_, _)
ValidFrom(b, i) ==
    \/ i > Len(b)
    \/ utf8_chunk(b, i).ok /\ ValidFrom(b, i + utf8_chunk(b, i).n)

\* b is well-formed UTF-8
ValidUtf8(b) == (\A i \in 1..Len(b) : b[i] < 128) \/ ValidFrom(b, 1)

\* C13 as stated: the request is the framed script and after an echo the
\* call returns the script unchanged, for every script of 0..65534 bytes.
C13_RoundTrip ==
    /\ sc.wire # <<>> => Framed(sc.wire, sc.file)
    /\ (sc.pc = "returned" /\ sc.peer = "echo") =>
           sc.result = [kind |-> "Ok", text |-> sc.file]

\* C13, amended: the request is the framed script, the echo is that frame,
\* and the call returns the script decoded as UTF-8: the script itself when
\* it is well-formed UTF-8, otherwise a text that differs from it.
C13_RoundTripUtf8 ==
    /\ sc.wire # <<>> => Framed(sc.wire, sc.file)
    /\ sc.peer = "echo" => sc.reply = sc.wire
    /\ (sc.pc = "returned" /\ sc.peer = "echo") =>
           /\ sc.result.kind = "Ok"
           /\ ValidUtf8(sc.file) => sc.result.text = sc.file
           /\ ~ValidUtf8(sc.file) => sc.result.text # sc.file

\* a script of the largest size and one with a two-byte character came
\* back unchanged
C13_Witness ==
    /\ sc.pc = "returned"
    /\ sc.peer = "echo"
    /\ sc.result = [kind |-> "Ok", text |-> sc.file]
    /\ \/ Len(sc.file) = 65534
       \/ sc.file = <<65, 195, 169>>

\* spaces, then at least one digit
SpacesThenDigits(t) ==
    \E j \in 0..(Len(t) - 1) :
        /\ \A i \in 1..j : t[i] \in {" ", "\t"}
        /\ \A i \in (j + 1)..Len(t) : IsDigit(t[i])

\* <id>: <rules>, <tbl8s> with optional white space around the numbers
DataLine(line) ==
    \E c, k, e \in 1..Len(line) :
        /\ c < k /\ k < e
        /\ line[c] = ":" /\ line[k] = ","
        /\ SpacesThenDigits(SubSeq(line, 1, c - 1))
        /\ SpacesThenDigits(SubSeq(line, c + 1, k - 1))
        /\ SpacesThenDigits(SubSeq(line, k + 1, e))
        /\ \A i \in (e + 1)..Len(line) : line[i] \in {" ", "\t"}

BlankLine(line) == line \in Seq({" ", "\t"})

DataLines(ls) == {i \in 1..Len(ls) : DataLine(ls[i])}

BadLines(ls) == {i \in 1..Len(ls) : ~DataLine(ls[i]) /\ ~BlankLine(ls[i])}

FirstOf(idx) == CHOOSE i \in idx : \A j \in idx : i <= j

\* the three numbers of a data line all fit usize
NumbersParse(line) ==
    /\ parse_usize(captures(line).id).ok
    /\ parse_usize(captures(line).p1).ok
    /\ parse_usize(captures(line).p2).ok

\* C14 as stated: success only when every line is a data line or blank and
\* one is a data line; a response with a non-blank line that is no data
\* line gives the error naming the first such line; one without data lines
\* the empty-response error.
C14_ParserStrict ==
    LET ls == lines(pl.s) IN
    pl.result.kind # "none" =>
        /\ pl.result.kind = "Ok" => (BadLines(ls) = {} /\ DataLines(ls) # {})
        /\ BadLines(ls) # {} =>
               pl.result = [kind |-> "Line", line |-> ls[FirstOf(BadLines(ls))]]
        /\ (BadLines(ls) = {} /\ DataLines(ls) = {}) =>
               pl.result = [kind |-> "Empty"]

\* C14, amended: as above, but a data line whose number does not fit usize
\* ends the parse with the integer error before a later malformed line is
\* looked at; on success there is one result per non-blank line.
C14_ParserErrors ==
    LET ls == lines(pl.s)
        bad == BadLines(ls)
        data == DataLines(ls)
    IN pl.result.kind # "none" =>
        /\ pl.result.kind = "Ok" =>
               /\ bad = {} /\ data # {}
               /\ Len(pl.result.params) =
                      Cardinality({i \in 1..Len(ls) : ~BlankLine(ls[i])})
        /\ bad # {} =>
               \/ pl.result = [kind |-> "Line", line |-> ls[FirstOf(bad)]]
               \/ /\ pl.result = [kind |-> "ParseInt"]
                  /\ \E i \in data : i < FirstOf(bad) /\ ~NumbersParse(ls[i])
        /\ (bad = {} /\ data = {}) => pl.result = [kind |-> "Empty"]
        /\ (bad = {} /\ data # {}) =>
               pl.result.kind = IF \A i \in data : NumbersParse(ls[i])
                                THEN "Ok" ELSE "ParseInt"

\* a malformed line after a data line is named by the error
C14_Witness ==
    /\ pl.s = Join(<<L_99, L_abc, L_foo>>)
    /\ pl.result = [kind |-> "Line", line |-> L_abc]

\* C15: on success the result holds, for each data line, its Params at the
\* position given by the number of data lines with a smaller id plus the
\* number of earlier data lines with the same id, and nothing else; a Params
\* holds the rule and tbl8 counts only.
C15_SortedById ==
    LET ls == lines(pl.s)
        data == DataLines(ls)
        id(i) == parse_usize(captures(ls[i]).id).n
        nr(i) == parse_usize(captures(ls[i]).p1).n
        nt(i) == parse_usize(captures(ls[i]).p2).n
        rank(i) == Cardinality({j \in data : \/ id(j) < id(i)
                                             \/ id(j) = id(i) /\ j <= i})
    IN pl.result.kind = "Ok" =>
        /\ Len(pl.result.params) = Cardinality(data)
        /\ \A i \in data :
               pl.result.params[rank(i)] =
                   [num_rules |-> nr(i), num_tbl8s |-> nt(i)]

\* three lines out of order, two of them with the same id
C15_Witness ==
    /\ pl.s = Join(<<L_2, L_1, L_01>>)
    /\ pl.result = [kind |-> "Ok",
                    params |-> <<Params(3, 4), Params(7, 8), Params(5, 6)>>]

\* C16: estimate_ipv4(S) has num_rules = |S| and num_tbl8s = the number of
\* distinct /24 networks (first three octets) of the prefixes of S longer
\* than 24 bits.
C16_EstimateIpv4 ==
    (es.called /\ es.proto = "ipv4") =>
        /\ es.result.num_rules = Cardinality(es.nets)
        /\ es.result.num_tbl8s =
               Cardinality({SubSeq(p.addr, 1, 3) : p \in {q \in es.nets : q.len > 24}})

\* four prefixes, three of them longer than /24 in one /24: one tbl8
C16_Witness ==
    /\ es.called
    /\ es.nets = {Net4(10, 0, 1, 0, 24), Net4(10, 0, 1, 0, 25),
                  Net4(10, 0, 1, 128, 25), Net4(10, 0, 1, 7, 32)}
    /\ es.result = Params(4, 1)

\* the depths lpm6_add_tables visits for a prefix of length n
Depths(n) == {d \in {24 + 8 * k : k \in 0..12} : d < n}

\* C17: estimate_ipv6(S).num_tbl8s is the number of distinct pairs of a
\* depth d in {24, 32, 40, ...} under the length of a prefix of S and the
\* first d bits of that prefix; a lone prefix of length n gives
\* max(0, ceil((n - 24) / 8)).
C17_EstimateIpv6 ==
    (es.called /\ es.proto = "ipv6") =>
        /\ es.result.num_tbl8s =
               Cardinality(UNION {{<<SubSeq(p.addr, 1, d \div 8), d>> : d \in Depths(p.len)}
                                  : p \in es.nets})
        /\ \A p \in es.nets :
               es.nets = {p} =>
                   es.result.num_tbl8s =
                       IF p.len <= 24 THEN 0 ELSE (p.len - 24 + 7) \div 8

\* a lone /48 gives 3
C17_Witness ==
    /\ es.called
    /\ es.nets = {Net6(0, 0, 48)}
    /\ es.result.num_tbl8s = 3

\* C18: in a pass whose old file is missing or empty the old Bootstrap has
\* no group, every group of the new Bootstrap is reconciled against an empty
\* old group (all of it inserted, nothing removed), the deserialize step can
\* be taken, and the pass that completes leaves an old file.
C18_FirstRunBaseline ==
    /\ (pc = "deserialize" /\ old.st # "data") => ENABLED Deserialize
    /\ (pc \in {"loop", "render", "send"} /\ old.st # "data") =>
           /\ old_bootstrap = NoBootstrap
           /\ \A t \in TableIds : OldRanges(old_bootstrap, t[1], t[2]) = {}
    /\ (pc \in {"render", "send"} /\ old.st # "data") =>
           /\ g.old_ranges = {}
           /\ g.new_ranges = NewRanges(new_bootstrap, g.proto, g.kind)
           /\ g.mode # "none" =>
                  g.changes = [insert |-> g.new_ranges, remove |-> {}]
    /\ pc = "done" => old.st # "absent"

\* the first run, old missing, is sending the inserts of a group
C18_Witness ==
    /\ pc = "send"
    /\ old.st = "absent"
    /\ pass = "caller"
    /\ g.mode = "Update"
    /\ g.new_ranges # {}
    /\ g.changes = [insert |-> g.new_ranges, remove |-> {}]

\* C19: an invocation that found the current file of an interrupted pass
\* and completed leaves every table of a kind present in its aggregate
\* holding exactly that group's ranges.
C19_CrashConvergence ==
    (pc = "done" /\ h.hadCur) =>
        \A t \in TableIds :
            GroupOf(arg, t) # {} => table[t] = Ranges(GroupOf(arg, t))

\* the latest pass has copied its aggregate to current and not promoted it
Uncommitted ==
    /\ Begins # {}
    /\ LET b == CHOOSE i \in Begins : \A j \in Begins : j <= i IN
       /\ \E i \in (b + 1)..Len(h.ev) : h.ev[i][1] = "copy"
       /\ \A i \in (b + 1)..Len(h.ev) : h.ev[i][1] # "promote"

\* C20: a pass exchanges with the socket only after its copy to current, and
\* from that copy until the promotion, also after an error or a kill, the
\* current file exists.
C20_CommitPoint ==
    /\ pc \in {"loop", "render", "send"} => Uncommitted
    /\ h.sent # {} => Uncommitted
    /\ Uncommitted => cur.st # "absent"

\* a pass was killed after it had transmitted a group; current is on disk
C20_Witness ==
    /\ pc = "killed"
    /\ h.sent # {}
    /\ Uncommitted
    /\ cur.st = "data"
    /\ old.st = "absent"

\* the groups of one family of a Bootstrap
GroupsOf(bootstrap, proto) ==
    IF proto = "ipv4" THEN bootstrap.ipv4 ELSE bootstrap.ipv6

\* the (family, kind) pairs whose kind the new Bootstrap holds
NewGroups == {t \in TableIds : t[2] \in DOMAIN GroupsOf(new_bootstrap, t[1])}

\* C21: a capacity read is made only for a kind of the new Bootstrap, with
\* that kind's old group or, when old has none, an empty one; a table is
\* changed only for the group being run, a kind of the new Bootstrap; and the
\* pass that promotes has transmitted the groups of exactly those kinds.
C21_GroupsOfNew ==
    [][/\ (pc = "loop" /\ pc' = "render") =>
              /\ <<g'.proto, g'.kind>> \in NewGroups
              /\ g'.new_ranges = GroupsOf(new_bootstrap, g'.proto)[g'.kind]
              /\ g'.old_ranges =
                     IF g'.kind \in DOMAIN GroupsOf(old_bootstrap, g'.proto)
                     THEN GroupsOf(old_bootstrap, g'.proto)[g'.kind]
                     ELSE {}
       /\ \A t \in TableIds :
              table'[t] # table[t] => (t = <<g.proto, g.kind>> /\ t \in NewGroups)
       /\ h'.sent # h.sent => h'.sent \subseteq NewGroups
       /\ (h'.ev # h.ev /\ h'.ev # <<>> /\ h.ev # <<>>
               /\ \E i \in 1..Len(h'.ev) : i > Len(h.ev) /\ h'.ev[i][1] = "promote") =>
              h.sent = NewGroups
      ]_vars

\* a group of a kind that old lacks is being sent, with an empty old group,
\* while a kind that only old holds is not visited in this pass
C21_Witness ==
    /\ pc = "send"
    /\ g.kind \notin DOMAIN GroupsOf(old_bootstrap, g.proto)
    /\ g.old_ranges = {}
    /\ todo = <<>>
    /\ \E t \in TableIds :
           /\ t[2] \in DOMAIN GroupsOf(old_bootstrap, t[1])
           /\ t \notin NewGroups
           /\ table[t] # {}

\* the scripts the renderer returned for the group being run
Rendered == RunResult(g).scripts

\* C22: the steps of a pass are taken one at a time in program order: while
\* an IPv4 group is run no IPv6 group has been transmitted; scripts are sent
\* only after the capacity of their group was read; the scripts still to be
\* sent are a tail of the rendered ones; each exchange that changes a table
\* applies the first of them and leaves the rest for the next exchanges.
C22_Sequential ==
    [][/\ (pc \in {"render", "send"} /\ g.proto = "ipv4") =>
              \A t \in h.sent : t[1] = "ipv4"
       /\ pc = "send" =>
              /\ g.current_params \in Reports
              /\ g.scripts # <<>>
              /\ \E k \in 1..Len(Rendered) :
                     g.scripts = SubSeq(Rendered, k, Len(Rendered))
       /\ (pc = "render" /\ pc' = "send") => g'.scripts = Rendered
       /\ table' # table =>
              /\ pc = "send"
              /\ table' = [table EXCEPT ![<<g.proto, g.kind>>] =
                                            Apply(@, Head(g.scripts))]
              /\ \/ pc' \in {"failed", "killed"}
                 \/ g'.scripts = Tail(g.scripts)
       /\ (pc = "send" /\ pc' = "send") =>
              (g'.scripts = Tail(g.scripts) /\ g'.kind = g.kind /\ g'.proto = g.proto)
      ]_vars

\* the script of an IPv6 group is next, after both IPv4 groups were sent
C22_Witness ==
    /\ pc = "send"
    /\ g.proto = "ipv6"
    /\ h.sent = {<<"ipv4", "a">>, <<"ipv4", "b">>}
    /\ g.current_params \in Reports
    /\ g.scripts = Rendered

\* C23: a step that returns an error ends the invocation: it changes no
\* table, except that the script whose exchange failed may have been applied;
\* it takes back nothing and promotes nothing; and after it nothing is sent
\* until a new invocation starts.
C23_FailureStops ==
    [][/\ (Len(h'.ev) = Len(h.ev) + 1 /\ h'.ev[Len(h'.ev)][1] = "fail") =>
              /\ pc' = "failed"
              /\ \A t \in TableIds :
                     table'[t] # table[t] =>
                         /\ pc = "send"
                         /\ t = <<g.proto, g.kind>>
                         /\ table'[t] = Apply(table[t], Head(g.scripts))
              /\ h'.sent = h.sent
              /\ old' = old
              /\ g' = NoRun /\ todo' = <<>>
       /\ pc = "failed" =>
              /\ table' = table
              /\ pc' = "copy"
              /\ h'.ev = <<<<"begin", FirstPass(cur)>>>>
      ]_vars

\* a group was transmitted and applied, then a later step of the pass failed
\* with groups still to visit
C23_Witness ==
    /\ pc = "failed"
    /\ h.sent = {<<"ipv4", "a">>}
    /\ table[<<"ipv4", "a">>] # {}
    /\ table[<<"ipv4", "b">>] = {}
    /\ GroupOf(cur.agg, <<"ipv4", "b">>) # {}
    /\ old.st = "absent"

\* C24: whatever length header the peer answers with, the call returns the
\* bytes that follow the header decoded as text, or an Io error; it never
\* aborts.
C24_NoAbort ==
    (sc.pc = "returned" /\ sc.peer # "none") =>
        \/ sc.result.kind = "Io"
        \/ /\ sc.result.kind = "Ok"
           /\ Len(sc.reply) >= 2
           /\ sc.result.text =
                  from_utf8_lossy(SubSeq(sc.reply, 3, 2 + sc.reply[1] * 256 + sc.reply[2]))

\* the orders in which the prefixes of S can be visited
RECURSIVE Orders(_)
Orders(S) ==
    IF S = {} THEN {<<>>}
    ELSE UNION {{<<x>> \o o : o \in Orders(S \ {x})} : x \in S}

\* the tbl8s counted when the prefixes are visited in the order o, the memo
\* starting empty
RECURSIVE Tbl8sInOrder(_, _, _)
Tbl8sInOrder(proto, o, prefixes) ==
    IF o = <<>> THEN 0
    ELSE LET r == add_tables(proto, Head(o), prefixes)
         IN  r[1] + Tbl8sInOrder(proto, Tail(o), r[2])

\* the result as a function of the family and the set alone
ParamsOf(proto, S) ==
    Params(Cardinality(S),
           IF proto = "ipv4"
           THEN Cardinality({SubSeq(p.addr, 1, 3) : p \in {q \in S : q.len > 24}})
           ELSE Cardinality(UNION {{<<SubSeq(p.addr, 1, d \div 8), d>> : d \in Depths(p.len)}
                                   : p \in S}))

\* C25: the result of an estimate call is the same function of its set
\* whatever calls were made before it, and every order of visiting the
\* prefixes gives the same number of tbl8s.
C25_MemoLocal ==
    es.called =>
        /\ es.result = ParamsOf(es.proto, es.nets)
        /\ \A o \in Orders(es.nets) :
               Tbl8sInOrder(es.proto, o, {}) = es.result.num_tbl8s

\* a call made after a call that had counted the same /24 counts it again
C25_Witness ==
    /\ es.called
    /\ es.proto = "ipv4"
    /\ Net4(10, 0, 1, 0, 24) \in es.leftover
    /\ es.nets = {Net4(10, 0, 1, 128, 25), Net4(10, 0, 1, 7, 32)}
    /\ es.result = Params(2, 1)

====
